---------------------------- MODULE Spec2Model ----------------------------
(***************************************************************************)
(* The question-list operations of src/nested.ts, over a heap.             *)
(*                                                                         *)
(* A Question is a JavaScript object and its `options` an array: both are  *)
(* references.  The heap is two stores, `recs` (the Question objects) and  *)
(* `arrs` (the string[] objects); an address is an index into its store    *)
(* and a Question[] is a sequence of addresses into `recs`.  A string is   *)
(* the sequence of its characters.                                         *)
(*                                                                         *)
(* Every operation takes the heap h = [recs, arrs] and returns             *)
(* [heap |-> the heap after the call, value |-> what the call returns].    *)
(***************************************************************************)
EXTENDS Integers, Sequences, FiniteSets, TLC

VARIABLES
    recs,       \* the Question objects: address -> fields, `options` an address into arrs
    arrs,       \* the string[] objects: address -> sequence of strings
    questions,  \* the caller's Question[]: a sequence of addresses into recs
    pc,         \* "ready" | "returned" | "mutated"
    op,         \* the operation called
    args,       \* its arguments
    result,     \* what it returned
    before,     \* history: the value of `questions` when the call was made
    returned,   \* history: the value of `result` when the call returned
    side        \* "none" | "input" | "result": what the caller mutated after the call

vars == <<recs, arrs, questions, pc, op, args, result, before, returned, side>>

-----------------------------------------------------------------------------
(* Bounds *)

MaxLen == 3

MaxOpts == 2

-----------------------------------------------------------------------------
(* Strings and numbers as the template literals render them *)

Range(s) == {s[i] : i \in 1..Len(s)}

SeqsUpTo(S, n) == UNION {[1..k -> S] : k \in 0..n}

RECURSIVE Flatten(_)
Flatten(ss) == IF ss = <<>> THEN <<>> ELSE Head(ss) \o Flatten(Tail(ss))

Digit(d) == <<"0", "1", "2", "3", "4", "5", "6", "7", "8", "9">>[d + 1]

RECURSIVE NatToString(_)
NatToString(n) ==
    IF n < 10 THEN <<Digit(n)>> ELSE NatToString(n \div 10) \o <<Digit(n % 10)>>

\* `${n}` of an integer
NumberToString(n) == IF n < 0 THEN <<"-">> \o NatToString(-n) ELSE NatToString(n)

\* `${b}` of a boolean
BooleanToString(b) ==
    IF b THEN <<"t", "r", "u", "e">> ELSE <<"f", "a", "l", "s", "e">>

Header ==
    <<"i", "d", ",", "n", "a", "m", "e", ",", "o", "p", "t", "i", "o", "n", "s", ",",
      "p", "o", "i", "n", "t", "s", ",", "p", "u", "b", "l", "i", "s", "h", "e", "d">>

CopyOf == <<"C", "o", "p", "y", " ", "o", "f", " ">>

null == 0

QuestionTypes == {"multiple_choice_question", "short_answer_question"}

-----------------------------------------------------------------------------
(* The heap *)

Heap == [recs |-> recs, arrs |-> arrs]

\* a new Question object with the fields of q and a new string[] holding opts
AllocQuestion(h, q, opts) ==
    [recs |-> Append(h.recs, [q EXCEPT !.options = Len(h.arrs) + 1]),
     arrs |-> Append(h.arrs, opts)]

OptionsOf(h, r) == h.arrs[h.recs[r].options]

\* the value of the Question at address r: its fields, its options by value
Val(h, r) == [h.recs[r] EXCEPT !.options = OptionsOf(h, r)]

Vals(h, qs) == [i \in 1..Len(qs) |-> Val(h, qs[i])]

ValOrNull(h, r) == IF r = null THEN [found |-> FALSE] ELSE [found |-> TRUE, question |-> Val(h, r)]

\* questions.map(question => ({...fields[question], options: opts[question]})):
\* one new object and one new options array per element, in order; the
\* callback is given by what it yields for each question of qs
mapQuestions(h, qs, fields, opts) ==
    [heap |->
        [recs |-> h.recs \o [i \in 1..Len(qs) |->
                      [fields[qs[i]] EXCEPT !.options = Len(h.arrs) + i]],
         arrs |-> h.arrs \o [i \in 1..Len(qs) |-> opts[qs[i]]]],
     value |-> [i \in 1..Len(qs) |-> Len(h.recs) + i]]

\* questions.filter(test): a new array of the same objects
filterQuestions(h, qs, test) ==
    LET keep(question) == test[question]
    IN [heap |-> h, value |-> SelectSeq(qs, keep)]

\* Array.prototype.splice(start, deleteCount, item) on a 0-based array
splice(arr, start, deleteCount, item) ==
    LET len == Len(arr)
        from == IF start < 0
                THEN (IF len + start < 0 THEN 0 ELSE len + start)
                ELSE (IF start > len THEN len ELSE start)
        del == IF deleteCount < 0 THEN 0
               ELSE IF deleteCount > len - from THEN len - from ELSE deleteCount
    IN SubSeq(arr, 1, from) \o <<item>> \o SubSeq(arr, from + del + 1, len)

\* Array.prototype.findIndex: the 0-based index of the first match, or -1
findIndex(qs, test) ==
    IF \E i \in 1..Len(qs) : test[qs[i]]
    THEN (CHOOSE i \in 1..Len(qs) : test[qs[i]] /\ \A j \in 1..(i - 1) : ~test[qs[j]]) - 1
    ELSE -1

-----------------------------------------------------------------------------
(* objects.ts *)

makeBlankQuestion(h, id, name, type) ==
    LET q == [id |-> id, name |-> name, type |-> type, body |-> <<>>,
              expected |-> <<>>, options |-> null, points |-> 0, published |-> FALSE]
    IN [heap |-> AllocQuestion(h, q, <<>>), value |-> Len(h.recs) + 1]

duplicateQuestion(h, id, oldQuestion) ==
    LET q == [h.recs[oldQuestion] EXCEPT !.id = id, !.name = CopyOf \o @]
    IN [heap |-> AllocQuestion(h, q, OptionsOf(h, oldQuestion)),
        value |-> Len(h.recs) + 1]

-----------------------------------------------------------------------------
(* nested.ts *)

getPublishedQuestions(h, qs) ==
    LET test(question) == h.recs[question].published
    IN filterQuestions(h, qs, [question \in Range(qs) |-> test(question)])

getNonEmptyQuestions(h, qs) ==
    LET test(question) == \/ h.recs[question].body # <<>>
                          \/ h.recs[question].expected # <<>>
                          \/ Len(OptionsOf(h, question)) >= 1
    IN filterQuestions(h, qs, [question \in Range(qs) |-> test(question)])

findQuestion(h, qs, id) ==
    LET test(question) == h.recs[question].id = id
        i == findIndex(qs, [question \in Range(qs) |-> test(question)])
    IN [heap |-> h, value |-> IF i # -1 THEN qs[i + 1] ELSE null]

\* the slip of removing only the first question with the id
removeFirstQuestion(h, qs, id) ==
    LET test(question) == h.recs[question].id = id
        i == findIndex(qs, [question \in Range(qs) |-> test(question)])
    IN [heap |-> h,
        value |-> IF i = -1 THEN qs ELSE SubSeq(qs, 1, i) \o SubSeq(qs, i + 2, Len(qs))]

removeQuestion(h, qs, id) ==
    LET test(question) == h.recs[question].id # id
    IN filterQuestions(h, qs, [question \in Range(qs) |-> test(question)])

RECURSIVE sumPointsFrom(_, _, _, _)
sumPointsFrom(h, qs, i, previousPoints) ==
    IF i > Len(qs) THEN previousPoints
    ELSE sumPointsFrom(h, qs, i + 1, previousPoints + h.recs[qs[i]].points)

sumPoints(h, qs) == [heap |-> h, value |-> sumPointsFrom(h, qs, 1, 0)]

\* the slip of adding the points of unpublished questions too
sumPointsWhateverPublished(h, qs, i, previousPoints) ==
    sumPointsFrom(h, qs, i, previousPoints)

RECURSIVE sumPublishedPointsFrom(_, _, _, _)
sumPublishedPointsFrom(h, qs, i, previousPoints) ==
    IF i > Len(qs) THEN previousPoints
    ELSE sumPublishedPointsFrom(h, qs, i + 1,
             IF h.recs[qs[i]].published
             THEN previousPoints + h.recs[qs[i]].points
             ELSE previousPoints)

sumPublishedPoints(h, qs) ==
    [heap |-> h, value |-> sumPublishedPointsFrom(h, qs, 1, 0)]

\* the slip of writing ${options}, the options themselves joined by commas,
\* for ${options.length}
csvRowWithOptions(h, previousCSV, question) ==
    LET options == OptionsOf(h, question)
        joined == Flatten([i \in 1..Len(options) |->
                      IF i = 1 THEN options[i] ELSE <<",">> \o options[i]])
    IN previousCSV \o <<"\n">>
        \o NumberToString(h.recs[question].id) \o <<",">>
        \o h.recs[question].name \o <<",">>
        \o joined \o <<",">>
        \o NumberToString(h.recs[question].points) \o <<",">>
        \o BooleanToString(h.recs[question].published)

\* one step of the reduce of toCSV
csvRow(h, previousCSV, question) ==
    previousCSV \o <<"\n">>
        \o NumberToString(h.recs[question].id) \o <<",">>
        \o h.recs[question].name \o <<",">>
        \o NumberToString(Len(OptionsOf(h, question))) \o <<",">>
        \o NumberToString(h.recs[question].points) \o <<",">>
        \o BooleanToString(h.recs[question].published)

RECURSIVE toCSVFrom(_, _, _, _)
toCSVFrom(h, qs, i, previousCSV) ==
    IF i > Len(qs) THEN previousCSV
    ELSE toCSVFrom(h, qs, i + 1, csvRow(h, previousCSV, qs[i]))

toCSV(h, qs) == [heap |-> h, value |-> toCSVFrom(h, qs, 1, Header)]

\* the slip of ({...question, published: true}): the new objects hold the
\* options arrays of the old ones
publishAllSharingOptions(h, qs) ==
    [heap |->
        [recs |-> h.recs \o [i \in 1..Len(qs) |->
                      [h.recs[qs[i]] EXCEPT !.published = TRUE]],
         arrs |-> h.arrs],
     value |-> [i \in 1..Len(qs) |-> Len(h.recs) + i]]

publishAll(h, qs) ==
    LET fields(question) == [h.recs[question] EXCEPT !.published = TRUE]
        opts(question) == OptionsOf(h, question)
    IN mapQuestions(h, qs, [question \in Range(qs) |-> fields(question)],
                           [question \in Range(qs) |-> opts(question)])

\* the slip of answering after the first comparison
RECURSIVE sameTypeOfFirstTwo(_, _, _, _)
sameTypeOfFirstTwo(h, qs, i, firstQuestionType) ==
    IF i > Len(qs) THEN TRUE
    ELSE IF firstQuestionType = "null"
         THEN sameTypeOfFirstTwo(h, qs, i + 1, h.recs[qs[i]].type)
         ELSE h.recs[qs[i]].type = firstQuestionType

\* every() stops at the first element whose callback returns false
RECURSIVE sameTypeFrom(_, _, _, _)
sameTypeFrom(h, qs, i, firstQuestionType) ==
    IF i > Len(qs) THEN TRUE
    ELSE IF firstQuestionType = "null"
         THEN sameTypeFrom(h, qs, i + 1, h.recs[qs[i]].type)
         ELSE IF h.recs[qs[i]].type = firstQuestionType
              THEN sameTypeFrom(h, qs, i + 1, firstQuestionType)
              ELSE FALSE

sameType(h, qs) == [heap |-> h, value |-> sameTypeFrom(h, qs, 1, "null")]

\* questions.map(question => ({...question, options: [...question.options]}))
copyQuestions(h, qs) ==
    LET fields(question) == h.recs[question]
        opts(question) == OptionsOf(h, question)
    IN mapQuestions(h, qs, [question \in Range(qs) |-> fields(question)],
                           [question \in Range(qs) |-> opts(question)])

addNewQuestion(h, qs, id, name, type) ==
    LET copy == copyQuestions(h, qs)
        blank == makeBlankQuestion(copy.heap, id, name, type)
    IN [heap |-> blank.heap, value |-> Append(copy.value, blank.value)]

renameQuestionById(h, qs, targetId, newName) ==
    LET fields(question) ==
            [h.recs[question] EXCEPT
                !.name = IF targetId = h.recs[question].id THEN newName ELSE @]
        opts(question) == OptionsOf(h, question)
    IN mapQuestions(h, qs, [question \in Range(qs) |-> fields(question)],
                           [question \in Range(qs) |-> opts(question)])

\* the slip of clearing the options without looking at the id
changeTypeClearingAllOptions(h, qs, targetId, newQuestionType) ==
    LET fields(question) ==
            [h.recs[question] EXCEPT
                !.type = IF targetId = h.recs[question].id THEN newQuestionType ELSE @]
        opts(question) ==
            IF newQuestionType # "multiple_choice_question"
            THEN <<>>
            ELSE OptionsOf(h, question)
    IN mapQuestions(h, qs, [question \in Range(qs) |-> fields(question)],
                           [question \in Range(qs) |-> opts(question)])

changeQuestionTypeById(h, qs, targetId, newQuestionType) ==
    LET fields(question) ==
            [h.recs[question] EXCEPT
                !.type = IF targetId = h.recs[question].id THEN newQuestionType ELSE @]
        opts(question) ==
            IF /\ targetId = h.recs[question].id
               /\ newQuestionType # "multiple_choice_question"
            THEN <<>>
            ELSE OptionsOf(h, question)
    IN mapQuestions(h, qs, [question \in Range(qs) |-> fields(question)],
                           [question \in Range(qs) |-> opts(question)])

\* the slip of splice(targetOptionIndex, 0, newOption): an insertion
addOrInsertOption(targetOptionIndex, options, newOption) ==
    IF targetOptionIndex = -1
    THEN Append(options, newOption)
    ELSE splice(options, targetOptionIndex, 0, newOption)

\* the slip of appending for every negative index
addOnNegativeOrReplaceOption(targetOptionIndex, options, newOption) ==
    IF targetOptionIndex < 0
    THEN Append(options, newOption)
    ELSE splice(options, targetOptionIndex, 1, newOption)

addOrReplaceOption(targetOptionIndex, options, newOption) ==
    IF targetOptionIndex = -1
    THEN Append(options, newOption)
    ELSE splice(options, targetOptionIndex, 1, newOption)

editOption(h, qs, targetId, targetOptionIndex, newOption) ==
    LET fields(question) == h.recs[question]
        opts(question) ==
            IF h.recs[question].id = targetId
            THEN addOrReplaceOption(targetOptionIndex, OptionsOf(h, question), newOption)
            ELSE OptionsOf(h, question)
    IN mapQuestions(h, qs, [question \in Range(qs) |-> fields(question)],
                           [question \in Range(qs) |-> opts(question)])

\* the slip of splice(findQuestionIndex, ...): the duplicate before the original
duplicateQuestionBeforeOriginal(h, qs, targetId, newId) ==
    LET copy == copyQuestions(h, qs)
        test(question) == copy.heap.recs[question].id = targetId
        findQuestionIndex == findIndex(copy.value, [question \in Range(copy.value) |-> test(question)])
        dup == duplicateQuestion(copy.heap, newId, copy.value[findQuestionIndex + 1])
    IN IF findQuestionIndex = -1
       THEN copy
       ELSE [heap |-> dup.heap,
             value |-> splice(copy.value, findQuestionIndex, 0, dup.value)]

\* the slip of copyQuestions = [...questions]: a new array of the old objects
duplicateQuestionInShallowCopy(h, qs, targetId, newId) ==
    LET test(question) == h.recs[question].id = targetId
        findQuestionIndex == findIndex(qs, [question \in Range(qs) |-> test(question)])
        dup == duplicateQuestion(h, newId, qs[findQuestionIndex + 1])
    IN IF findQuestionIndex = -1
       THEN [heap |-> h, value |-> qs]
       ELSE [heap |-> dup.heap,
             value |-> splice(qs, findQuestionIndex + 1, 0, dup.value)]

duplicateQuestionInArray(h, qs, targetId, newId) ==
    LET copy == copyQuestions(h, qs)
        test(question) == copy.heap.recs[question].id = targetId
        findQuestionIndex == findIndex(copy.value, [question \in Range(copy.value) |-> test(question)])
        dup == duplicateQuestion(copy.heap, newId, copy.value[findQuestionIndex + 1])
    IN IF findQuestionIndex = -1
       THEN copy
       ELSE [heap |-> dup.heap,
             value |-> splice(copy.value, findQuestionIndex + 1, 0, dup.value)]

-----------------------------------------------------------------------------
(* The caller: inputs *)

Ids == {1, 12}

NewIds == {7, 12}

Names == {<<"A", "b">>, <<"c", "\n", "d">>}

NewName == <<"N", "e", "w">>

OptionLetters == <<"a", "b", "c", "d", "e", "f">>

\* the options <<"a">>, <<"b">>, ...: n pairwise different strings
FirstOptions(n) == [i \in 1..n |-> <<OptionLetters[i]>>]

NewOptions == {<<"N">>, <<"a">>}

OptionIndexes == (0 - MaxOpts - 2)..(MaxOpts + 1)

\* a question that is blank but for its id, name and type
Blank(id, name, type) ==
    [id |-> id, name |-> name, type |-> type, body |-> <<>>, expected |-> <<>>,
     options |-> <<>>, points |-> 0, published |-> FALSE]

\* three settings of the fields other than id and name, pairwise different in each
Profiles ==
    { [type |-> "short_answer_question", body |-> <<>>, expected |-> <<>>,
       options |-> <<>>, points |-> 0, published |-> FALSE],
      [type |-> "multiple_choice_question", body |-> <<"q">>, expected |-> <<"a">>,
       options |-> FirstOptions(MaxOpts), points |-> 10, published |-> TRUE],
      [type |-> "short_answer_question", body |-> <<"r">>, expected |-> <<>>,
       options |-> FirstOptions(1), points |-> 0 - 5, published |-> FALSE] }

NamedQuestions ==
    { [id |-> id, name |-> name, type |-> p.type, body |-> p.body,
       expected |-> p.expected, options |-> p.options, points |-> p.points,
       published |-> p.published] : id \in Ids, name \in Names, p \in Profiles }

TypedQuestions ==
    { [Blank(id, <<"Q">>, type) EXCEPT !.options = o] :
        id \in Ids, type \in QuestionTypes, o \in {FirstOptions(n) : n \in 0..MaxOpts} }

OptionQuestions ==
    { [Blank(id, <<"Q">>, "multiple_choice_question") EXCEPT !.options = FirstOptions(n)] :
        id \in Ids, n \in 0..MaxOpts }

PointQuestions ==
    { [Blank(1, <<"Q">>, "short_answer_question") EXCEPT !.points = p, !.published = b] :
        p \in {0, 2, 10, 0 - 5}, b \in BOOLEAN }

SharedQuestions ==
    { [Blank(id, <<"Q">>, "multiple_choice_question") EXCEPT
          !.options = FirstOptions(n), !.published = (n > 0)] :
        id \in Ids, n \in {0, 1} }

\* the caller holds the questions qs: one object and one options array each
Load(qs) ==
    /\ recs = [i \in 1..Len(qs) |-> [qs[i] EXCEPT !.options = i]]
    /\ arrs = [i \in 1..Len(qs) |-> qs[i].options]
    /\ questions = [i \in 1..Len(qs) |-> i]
    /\ pc = "ready"
    /\ op = "none"
    /\ args = <<>>
    /\ result = <<>>
    /\ before = qs
    /\ returned = <<>>
    /\ side = "none"

-----------------------------------------------------------------------------
(* The caller: calls *)

Call(name, a, r, view) ==
    /\ pc = "ready"
    /\ pc' = "returned"
    /\ op' = name
    /\ args' = a
    /\ recs' = r.heap.recs
    /\ arrs' = r.heap.arrs
    /\ result' = r.value
    /\ before' = Vals(Heap, questions)
    /\ returned' = view
    /\ UNCHANGED <<questions, side>>

CallForQuestions(name, a, r) == Call(name, a, r, Vals(r.heap, r.value))

GetPublishedQuestions ==
    CallForQuestions("getPublishedQuestions", <<>>, getPublishedQuestions(Heap, questions))

GetNonEmptyQuestions ==
    CallForQuestions("getNonEmptyQuestions", <<>>, getNonEmptyQuestions(Heap, questions))

FindQuestion ==
    \E id \in Ids :
        LET r == findQuestion(Heap, questions, id)
        IN Call("findQuestion", [id |-> id], r, ValOrNull(r.heap, r.value))

RemoveQuestion ==
    \E id \in Ids :
        CallForQuestions("removeQuestion", [id |-> id], removeQuestion(Heap, questions, id))

SumPoints ==
    LET r == sumPoints(Heap, questions) IN Call("sumPoints", <<>>, r, r.value)

SumPublishedPoints ==
    LET r == sumPublishedPoints(Heap, questions)
    IN Call("sumPublishedPoints", <<>>, r, r.value)

ToCSV ==
    LET r == toCSV(Heap, questions) IN Call("toCSV", <<>>, r, r.value)

PublishAll ==
    CallForQuestions("publishAll", <<>>, publishAll(Heap, questions))

SameType ==
    LET r == sameType(Heap, questions) IN Call("sameType", <<>>, r, r.value)

AddNewQuestion ==
    \E id \in NewIds, type \in QuestionTypes :
        CallForQuestions("addNewQuestion", [id |-> id, name |-> NewName, type |-> type],
            addNewQuestion(Heap, questions, id, NewName, type))

RenameQuestionById ==
    \E targetId \in Ids :
        CallForQuestions("renameQuestionById", [targetId |-> targetId, newName |-> NewName],
            renameQuestionById(Heap, questions, targetId, NewName))

ChangeQuestionTypeById ==
    \E targetId \in Ids, newQuestionType \in QuestionTypes :
        CallForQuestions("changeQuestionTypeById",
            [targetId |-> targetId, newQuestionType |-> newQuestionType],
            changeQuestionTypeById(Heap, questions, targetId, newQuestionType))

EditOption ==
    \E targetId \in Ids, targetOptionIndex \in OptionIndexes, newOption \in NewOptions :
        CallForQuestions("editOption",
            [targetId |-> targetId, targetOptionIndex |-> targetOptionIndex,
             newOption |-> newOption],
            editOption(Heap, questions, targetId, targetOptionIndex, newOption))

DuplicateQuestionInArray ==
    \E targetId \in Ids, newId \in NewIds :
        CallForQuestions("duplicateQuestionInArray", [targetId |-> targetId, newId |-> newId],
            duplicateQuestionInArray(Heap, questions, targetId, newId))

-----------------------------------------------------------------------------
(* The caller: mutations of what it holds after a call that returned questions *)

InputRefs == Range(questions)

ResultRefs ==
    IF op = "findQuestion"
    THEN (IF result = null THEN {} ELSE {result})
    ELSE Range(result)

\* question.name = "Z", question.published = !question.published
MutateRecord(r, s) ==
    /\ pc = "returned"
    /\ \/ recs' = [recs EXCEPT ![r].name = <<"Z">>]
       \/ recs' = [recs EXCEPT ![r].published = ~@]
    /\ pc' = "mutated"
    /\ side' = s
    /\ UNCHANGED <<arrs, questions, op, args, result, before, returned>>

\* question.options.push("Z"), question.options[0] = "Z", question.options.length = 0
MutateOptions(r, s) ==
    /\ pc = "returned"
    /\ \/ arrs' = [arrs EXCEPT ![recs[r].options] = Append(@, <<"Z">>)]
       \/ /\ arrs[recs[r].options] # <<>>
          /\ \/ arrs' = [arrs EXCEPT ![recs[r].options][1] = <<"Z">>]
             \/ arrs' = [arrs EXCEPT ![recs[r].options] = <<>>]
    /\ pc' = "mutated"
    /\ side' = s
    /\ UNCHANGED <<recs, questions, op, args, result, before, returned>>

MutateInputRecord == \E r \in InputRefs : MutateRecord(r, "input")

MutateInputOptions == \E r \in InputRefs : MutateOptions(r, "input")

MutateResultRecord == \E r \in ResultRefs : MutateRecord(r, "result")

MutateResultOptions == \E r \in ResultRefs : MutateOptions(r, "result")

-----------------------------------------------------------------------------
(* Specifications *)

\* removeQuestion, duplicateQuestionInArray and toCSV over questions that
\* differ in id, name and every other field
Init == \E qs \in SeqsUpTo(NamedQuestions, MaxLen) : Load(qs)

Next ==
    \/ RemoveQuestion
    \/ DuplicateQuestionInArray
    \/ ToCSV

Spec == Init /\ [][Next]_vars

\* changeQuestionTypeById and sameType over questions that differ in id, type and options
InitTyped == \E qs \in SeqsUpTo(TypedQuestions, MaxLen) : Load(qs)

NextTyped ==
    \/ ChangeQuestionTypeById
    \/ SameType

SpecTyped == InitTyped /\ [][NextTyped]_vars

\* editOption over questions that differ in id and in the number of options
InitOptions == \E qs \in SeqsUpTo(OptionQuestions, MaxLen) : Load(qs)

NextOptions == EditOption

SpecOptions == InitOptions /\ [][NextOptions]_vars

\* the sums over questions that differ in points and published
InitPoints == \E qs \in SeqsUpTo(PointQuestions, MaxLen) : Load(qs)

NextPoints ==
    \/ SumPoints
    \/ SumPublishedPoints
    \/ GetPublishedQuestions
    \/ PublishAll

SpecPoints == InitPoints /\ [][NextPoints]_vars

\* every operation that returns questions, and then one mutation by the caller
InitShared == \E qs \in SeqsUpTo(SharedQuestions, MaxLen) : Load(qs)

NextShared ==
    \/ GetPublishedQuestions
    \/ GetNonEmptyQuestions
    \/ FindQuestion
    \/ RemoveQuestion
    \/ PublishAll
    \/ AddNewQuestion
    \/ RenameQuestionById
    \/ ChangeQuestionTypeById
    \/ EditOption
    \/ DuplicateQuestionInArray
    \/ MutateInputRecord
    \/ MutateInputOptions
    \/ MutateResultRecord
    \/ MutateResultOptions

SpecShared == InitShared /\ [][NextShared]_vars

-----------------------------------------------------------------------------
(* Properties: vocabulary *)

Returned(name) == pc = "returned" /\ op = name

\* the positions of S whose question has the id
Matches(S, id) == {i \in 1..Len(S) : S[i].id = id}

Min(I) == CHOOSE i \in I : \A j \in I : i <= j

\* the position in S of the k-th question whose id is not the id
KthOther(S, id, k) ==
    CHOOSE i \in 1..Len(S) :
        /\ S[i].id # id
        /\ Cardinality({j \in 1..i : S[j].id # id}) = k

\* the pieces of s between the occurrences of sep
RECURSIVE Split(_, _)
Split(s, sep) ==
    IF \A i \in 1..Len(s) : s[i] # sep
    THEN <<s>>
    ELSE LET i == Min({j \in 1..Len(s) : s[j] = sep})
         IN <<SubSeq(s, 1, i - 1)>> \o Split(SubSeq(s, i + 1, Len(s)), sep)

DigitValue(c) == CHOOSE d \in 0..9 : Digit(d) = c

RECURSIVE ParseNat(_)
ParseNat(s) ==
    IF Len(s) = 1 THEN DigitValue(s[1])
    ELSE 10 * ParseNat(SubSeq(s, 1, Len(s) - 1)) + DigitValue(s[Len(s)])

ParseInt(s) == IF s[1] = "-" THEN 0 - ParseNat(Tail(s)) ELSE ParseNat(s)

IsDecimal(s) ==
    /\ s # <<>>
    /\ LET d == IF s[1] = "-" THEN Tail(s) ELSE s
       IN /\ d # <<>>
          /\ \A i \in 1..Len(d) : \E n \in 0..9 : Digit(n) = d[i]
          /\ (Len(d) > 1 => d[1] # "0")

\* the questions returned, by value, in the heap as it is now
ResultNow ==
    IF op = "findQuestion" THEN ValOrNull(Heap, result) ELSE Vals(Heap, result)

InputNow == Vals(Heap, questions)

-----------------------------------------------------------------------------
(* Properties *)

\* C1. duplicateQuestionInArray: when a question has the target id and the
\* first such question is at position i, the result is one longer, holds at
\* position i+1 the original with id = newId and name = "Copy of " + name and
\* every other field as it was, and holds the questions of S, by value, at
\* their positions (shifted by one after i); when no question has the target
\* id, the result is value-equal to S.
DuplicateInsertsAfterFirstMatch ==
    Returned("duplicateQuestionInArray") =>
        LET S == before
            R == returned
            hits == Matches(S, args.targetId)
        IN IF hits = {}
           THEN R = S
           ELSE LET i == Min(hits)
                IN /\ Len(R) = Len(S) + 1
                   /\ R[i + 1] = [S[i] EXCEPT !.id = args.newId, !.name = CopyOf \o S[i].name]
                   /\ \A j \in 1..i : R[j] = S[j]
                   /\ \A j \in (i + 1)..Len(S) : R[j + 1] = S[j]

DuplicateWitness ==
    /\ Returned("duplicateQuestionInArray")
    /\ Len(before) = 3
    /\ before[1].id # args.targetId
    /\ before[2].id = args.targetId
    /\ before[3].id = args.targetId
    /\ before[2].options # <<>>
    /\ Len(returned) = 4
    /\ returned[3].id = args.newId
    /\ returned[4] = before[3]

\* C6. removeQuestion: the result is the questions of S whose id is not the
\* given id, in their order in S; it is shorter than S by the number of
\* questions with that id, holds no question with that id, and is value-equal
\* to S when no question has the id.
RemoveDropsEveryMatch ==
    Returned("removeQuestion") =>
        LET S == before
            R == returned
            hits == Matches(S, args.id)
        IN /\ Len(R) = Len(S) - Cardinality(hits)
           /\ \A k \in 1..Len(R) : R[k].id # args.id
           /\ \A k \in 1..Len(R) : R[k] = S[KthOther(S, args.id, k)]
           /\ (hits = {} => R = S)

RemoveWitness ==
    /\ Returned("removeQuestion")
    /\ Len(before) = 3
    /\ before[1].id = args.id
    /\ before[2].id # args.id
    /\ before[3].id = args.id
    /\ returned = <<before[2]>>

\* C7. toCSV: the result is the header line followed, for each question of S
\* in order, by a newline and the line id,name,<number of options>,points,
\* published; it has |S|+1 lines when no name holds a newline, no trailing
\* newline, and is the header line alone for the empty sequence.
CsvFields(q) ==
    <<NumberToString(q.id), q.name, NumberToString(Len(q.options)),
      NumberToString(q.points), BooleanToString(q.published)>>

CsvLine(q) ==
    LET f == CsvFields(q)
    IN f[1] \o <<",">> \o f[2] \o <<",">> \o f[3] \o <<",">> \o f[4] \o <<",">> \o f[5]

ToCSVIsHeaderAndRows ==
    Returned("toCSV") =>
        LET S == before
            csv == returned
            lines == Split(csv, "\n")
        IN /\ csv = Header \o Flatten([i \in 1..Len(S) |-> <<"\n">> \o CsvLine(S[i])])
           /\ csv[Len(csv)] # "\n"
           /\ (S = <<>> => csv = Header)
           /\ (\A i \in 1..Len(S) : "\n" \notin Range(S[i].name)) =>
                 /\ Len(lines) = Len(S) + 1
                 /\ lines[1] = Header
                 /\ \A i \in 1..Len(S) :
                       LET f == Split(lines[i + 1], ",")
                       IN /\ Len(f) = 5
                          /\ IsDecimal(f[1]) /\ ParseInt(f[1]) = S[i].id
                          /\ f[2] = S[i].name
                          /\ IsDecimal(f[3]) /\ ParseInt(f[3]) = Len(S[i].options)
                          /\ IsDecimal(f[4]) /\ ParseInt(f[4]) = S[i].points
                          /\ f[5] = (IF S[i].published THEN <<"t", "r", "u", "e">>
                                     ELSE <<"f", "a", "l", "s", "e">>)

ToCSVWitness ==
    /\ Returned("toCSV")
    /\ Len(before) = 3
    /\ \A i \in 1..3 : "\n" \notin Range(before[i].name)
    /\ before[1].id = 12
    /\ before[2].points < 0
    /\ Len(before[3].options) = MaxOpts
    /\ Len(Split(returned, "\n")) = 4

\* C8. sameType: the result is true exactly when every question has the type
\* of the first one: true for the empty and the one-element sequence, false
\* when two questions differ in type, wherever they stand.
SameTypeIffAllTypesEqual ==
    Returned("sameType") =>
        LET S == before
        IN /\ returned = (\A i \in 1..Len(S) : S[i].type = S[1].type)
           /\ (Len(S) <= 1 => returned = TRUE)
           /\ (\E i, j \in 1..Len(S) : S[i].type # S[j].type) => returned = FALSE

SameTypeWitness ==
    /\ Returned("sameType")
    /\ Len(before) = 3
    /\ before[1].type = before[2].type
    /\ before[3].type # before[1].type
    /\ returned = FALSE

\* C4. changeQuestionTypeById: the result is as long as S; every question
\* with the target id has the new type and, when the new type is not
\* multiple_choice_question, no options (its options are kept otherwise);
\* every other question keeps its type and options; all other fields of all
\* questions are unchanged.
RetypeClearsOptionsOfTarget ==
    Returned("changeQuestionTypeById") =>
        LET S == before
            R == returned
        IN /\ Len(R) = Len(S)
           /\ \A i \in 1..Len(S) :
                 IF S[i].id = args.targetId
                 THEN R[i] = [S[i] EXCEPT
                                 !.type = args.newQuestionType,
                                 !.options = IF args.newQuestionType # "multiple_choice_question"
                                             THEN <<>> ELSE @]
                 ELSE R[i] = S[i]

RetypeWitness ==
    /\ Returned("changeQuestionTypeById")
    /\ args.newQuestionType = "short_answer_question"
    /\ Len(before) = 3
    /\ before[1].id # args.targetId /\ before[1].options # <<>>
    /\ before[2].id = args.targetId /\ before[2].options # <<>>
    /\ before[2].type = "multiple_choice_question"
    /\ before[3].id = args.targetId /\ before[3].options # <<>>
    /\ returned[1].options = before[1].options
    /\ returned[2].options = <<>>
    /\ returned[3].options = <<>>

\* C9. The sums: sumPoints of the empty sequence is 0; sumPoints(S) is
\* sumPublishedPoints(S) plus sumPoints of the unpublished questions of S;
\* sumPublishedPoints(S) = sumPoints(getPublishedQuestions(S)); and
\* sumPublishedPoints(publishAll(S)) = sumPoints(S).
Unpublished(h, qs) ==
    LET test(question) == ~h.recs[question].published IN SelectSeq(qs, test)

PointSumsAgree ==
    /\ Returned("sumPoints") =>
          /\ (before = <<>> => returned = 0)
          /\ returned = sumPublishedPoints(Heap, questions).value
                          + sumPoints(Heap, Unpublished(Heap, questions)).value
    /\ Returned("sumPublishedPoints") =>
          returned = sumPoints(Heap, getPublishedQuestions(Heap, questions).value).value
    /\ Returned("getPublishedQuestions") =>
          sumPoints(Heap, result).value = sumPublishedPoints(Heap, questions).value
    /\ Returned("publishAll") =>
          sumPublishedPoints(Heap, result).value = sumPoints(Heap, questions).value

PointSumsWitness ==
    /\ Returned("sumPoints")
    /\ Len(before) = 3
    /\ before[1].published /\ before[1].points = 10
    /\ ~before[2].published /\ before[2].points = 2
    /\ before[3].published /\ before[3].points < 0
    /\ returned = 7
    /\ sumPublishedPoints(Heap, questions).value = 5

\* what editOption is to leave alone: the length and order of S, every field
\* but options of every question, and the options of the questions whose id
\* is not the target
EditOptionFrame(S, R) ==
    /\ Len(R) = Len(S)
    /\ \A i \in 1..Len(S) :
          /\ [R[i] EXCEPT !.options = <<>>] = [S[i] EXCEPT !.options = <<>>]
          /\ (S[i].id # args.targetId => R[i].options = S[i].options)

\* old with the entry at the 0-based position k replaced by x
ReplacedAt(old, k, x) == [j \in 1..Len(old) |-> IF j = k + 1 THEN x ELSE old[j]]

\* C5. editOption with a valid index: index -1 appends the new option to the
\* options of the question with the target id (one longer, the old entries
\* intact and in order); an index k with 0 <= k < |options| replaces the
\* entry at position k and nothing else; other questions keep their options,
\* every question its other fields, the result the length and order of S.
EditOptionAppendsOrReplaces ==
    Returned("editOption") =>
        LET S == before
            R == returned
            k == args.targetOptionIndex
            x == args.newOption
        IN /\ EditOptionFrame(S, R)
           /\ \A i \in Matches(S, args.targetId) :
                 LET old == S[i].options
                     new == R[i].options
                 IN /\ k = -1 =>
                         /\ Len(new) = Len(old) + 1
                         /\ SubSeq(new, 1, Len(old)) = old
                         /\ new[Len(new)] = x
                    /\ (0 <= k /\ k < Len(old)) =>
                         /\ Len(new) = Len(old)
                         /\ new[k + 1] = x
                         /\ \A j \in 1..Len(old) : j # k + 1 => new[j] = old[j]

EditOptionWitness ==
    /\ Returned("editOption")
    /\ args.targetOptionIndex = 1
    /\ Len(before) = 3
    /\ before[1].id # args.targetId /\ Len(before[1].options) = 2
    /\ before[2].id = args.targetId /\ Len(before[2].options) = 2
    /\ before[3].id = args.targetId /\ before[3].options = <<>>
    /\ args.newOption \notin Range(before[2].options)
    /\ returned[2].options = <<before[2].options[1], args.newOption>>
    /\ returned[1].options = before[1].options

\* C10. editOption with an index out of range: the call returns, and for a
\* question with the target id and n options, an index k >= n appends the new
\* option (as -1 does); -n <= k <= -2 replaces the entry at position n+k;
\* k < -n replaces the entry at position 0 when n > 0 and inserts the new
\* option when n = 0.  The options then have n or n+1 entries, the old ones in
\* order but for the one replaced, and the new option at the changed position.
EditOptionClampsIndex ==
    Returned("editOption") =>
        LET S == before
            R == returned
            k == args.targetOptionIndex
            x == args.newOption
        IN /\ EditOptionFrame(S, R)
           /\ \A i \in Matches(S, args.targetId) :
                 LET old == S[i].options
                     new == R[i].options
                     n == Len(old)
                 IN /\ Len(new) \in {n, n + 1}
                    /\ k >= n => new = old \o <<x>>
                    /\ (0 - n <= k /\ k <= -2) => new = ReplacedAt(old, n + k, x)
                    /\ (k < 0 - n /\ n > 0) => new = ReplacedAt(old, 0, x)
                    /\ (k < 0 - n /\ n = 0) => new = <<x>>

EditOptionClampWitness ==
    /\ Returned("editOption")
    /\ args.targetOptionIndex = -2
    /\ Len(before) = 3
    /\ before[1].id = args.targetId /\ before[1].options = <<>>
    /\ before[2].id = args.targetId /\ Len(before[2].options) = 1
    /\ before[3].id = args.targetId /\ Len(before[3].options) = 2
    /\ returned[1].options = <<args.newOption>>
    /\ returned[2].options = <<args.newOption>>
    /\ returned[3].options = <<args.newOption, before[3].options[2]>>

CopyingOps ==
    {"publishAll", "addNewQuestion", "renameQuestionById", "changeQuestionTypeById",
     "editOption", "duplicateQuestionInArray"}

SelectingOps ==
    {"getPublishedQuestions", "getNonEmptyQuestions", "findQuestion", "removeQuestion"}

EditingOps == CopyingOps \ {"duplicateQuestionInArray"}

\* a mutation on one side of the call has left the other side as it was
MutationStaysOnItsSide ==
    /\ side = "input" => ResultNow = returned
    /\ side = "result" => InputNow = before

\* C2, as stated. No operation that returns questions aliases its input: after
\* any of them, a mutation by the caller of a record of S or of its options
\* leaves the result as it was returned, and a mutation of the result leaves S
\* as it was.
NoOperationAliasesItsInput == pc = "mutated" => MutationStaysOnItsSide

\* C2, amended. That holds of the six operations that copy (publishAll,
\* addNewQuestion, renameQuestionById, changeQuestionTypeById, editOption,
\* duplicateQuestionInArray); getPublishedQuestions, getNonEmptyQuestions,
\* findQuestion and removeQuestion return the records of S themselves.
OnlyCopyingOperationsDoNotAlias ==
    /\ (pc = "mutated" /\ op \in CopyingOps) => MutationStaysOnItsSide
    /\ (pc # "ready" /\ op \in SelectingOps) => ResultRefs \subseteq InputRefs

NoAliasWitness ==
    /\ pc = "mutated"
    /\ op = "duplicateQuestionInArray"
    /\ side = "input"
    /\ Len(result) = Len(questions) + 1
    /\ \E i \in 1..Len(before) :
          /\ before[i].id = args.targetId
          /\ InputNow[i].options # before[i].options
    /\ ResultNow = returned

\* C3. Copy-on-write of publishAll, addNewQuestion, renameQuestionById,
\* changeQuestionTypeById and editOption: every record of the result is a new
\* record with a new options array of its own, the call leaves S as it was,
\* and so does a mutation of a record of the result or of its options.
EditingOperationsCopyOnWrite ==
    (pc # "ready" /\ op \in EditingOps) =>
        /\ \A r \in ResultRefs :
              /\ r \notin InputRefs
              /\ \A q \in InputRefs : recs[r].options # recs[q].options
              /\ \A q \in ResultRefs : q # r => recs[r].options # recs[q].options
        /\ pc = "returned" => InputNow = before
        /\ side = "result" => InputNow = before

CopyOnWriteWitness ==
    /\ pc = "mutated"
    /\ op = "publishAll"
    /\ side = "result"
    /\ Len(result) = 3
    /\ \E i \in 1..Len(result) :
          /\ before[i].options # <<>>
          /\ ResultNow[i].options = <<>>
    /\ InputNow = before

=============================================================================
